---- MODULE Spec2Model ----
(***************************************************************************)
(* A model of the PPEM protocol engine (HamzaZF/PPEM): the append-only     *)
(* ledger (internal/zerocash/ledger.go), the withdraw driver               *)
(* (internal/transactions/withdraw/withdraw.go), the REST handler that     *)
(* appends to the shared ledger file (internal/zerocash/api.go) and the    *)
(* phase orchestrator (main.go).                                           *)
(*                                                                         *)
(* Field elements are small integers.  The MiMC hash is modelled as an     *)
(* injective constructor (a tagged tuple of its inputs), so that two       *)
(* hashes are equal exactly when their inputs are.  A Groth16 proof is     *)
(* modelled by what it proves: the curve and circuit it was produced for   *)
(* and the public inputs it binds.                                         *)
(***************************************************************************)
EXTENDS Integers, Sequences, FiniteSets, TLC

(***************************************************************************)
(* Bounds of the model.                                                    *)
(***************************************************************************)
\* Number of distinct note spending keys (hence of serial numbers).
MaxSk == 2
\* Cap on the number of entries of WithdrawTxs.
MaxWd == 1
\* Number of POST /tx requests in flight.
MaxReq == 2
\* Largest bid a participant of an orchestrated run places.
MaxBid == 2
\* Cap on the number of notes of the wallet whose operations are explored.
MaxNotes == 2

VARIABLES
    ledger,     \* the in-memory *Ledger the caller holds
    file,       \* ledger.json on disk
    lastOp,     \* the last ledger call: its name, serial number, result and error
    srv,        \* the REST servers: each participant's Mu and wallet, the requests
    run,        \* the orchestrator: its phase, loop index, wallets and outcomes
    wal,        \* one wallet, the ledger snapshot it reconciles against, its last call
    call,       \* the last call of a pure driver function: its name, input and result
    net         \* the P2P nodes, their DH states, channels and messages in flight

vars == <<ledger, file, lastOp, srv, run, wal, call, net>>

(***************************************************************************)
(* Values.                                                                 *)
(***************************************************************************)
Nil == "nil"

SecretKeys == 1..MaxSk
\* Every note of the model carries the same value, rho and r (the literals of
\* executeParticipantWithdrawal); notes differ by their spending key.
NoteOpening == [Coins |-> 100, Energy |-> 50, Rho |-> 111, Rand |-> 222, Bid |-> 25]
\* rho is a tagged value: of a registered note, of a ciphertext element, or
\* <<"H", sn>> for the note a tx creates.
NoteRho == <<"rho", NoteOpening.Rho>>
CipherRho == <<"ct", NoteOpening.Rho>>
NoteRand == NoteOpening.Rand
\* The auctioneer's public point pk_T.
AuctioneerPk == [X |-> 3, Y |-> 4]

\* mimcHash(sk): pk = H(sk).
mimcHash(sk) == <<"H", sk>>

\* PRFGo(sk, rho): sn = H(sk, rho).
PRFGo(sk, rho) == <<"prf", sk, rho>>

\* Commitment(coins, energy, pk, rho, r) = H(coins, energy, pk, rho, r).
Commitment(coins, energy, pk, rho, r) == <<"cm", coins, energy, pk, rho, r>>

\* EncWithdrawMimc: C_Wd = OTP_{pk_T}(bid, sk_in, pk_out), one mask per element.
EncWithdrawMimc(bid, skIn, pkOut, pkT) ==
    << <<"otp", pkT, 1, bid>>, <<"otp", pkT, 2, skIn>>, <<"otp", pkT, 3, pkOut>> >>

SerialNumbers == {PRFGo(sk, NoteRho) : sk \in SecretKeys}

\* The spending keys of the recipients a Tx can pay to.
DhKeys == [A |-> 101, B |-> 102]
RecipientKeys == {DhKeys.A, DhKeys.B}

\* CreateTx: rho_new is derived from sn_old, cm_new commits to the new note.
NewCommitment(snOld, skNew) ==
    Commitment(NoteOpening.Coins, NoteOpening.Energy, mimcHash(skNew),
               <<"H", snOld>>, NoteRand)

(***************************************************************************)
(* Transactions.  A Tx carries its public inputs and its proof bytes; the  *)
(* model keeps SnOld and CmNew, whether the proof bytes verify, and (as a  *)
(* ghost) which driver produced the record.                                *)
(***************************************************************************)
TxKinds == {"registration", "exchange"}

MakeTx(sn, skNew, kind, valid) ==
    [SnOld |-> sn, CmNew |-> NewCommitment(sn, skNew), Kind |-> kind, ProofValid |-> valid,
     NewNote |-> [Cm |-> NewCommitment(sn, skNew), Pk |-> mimcHash(skNew),
                  Rho |-> <<"H", sn>>]]

\* The transactions offered to the ledger: for every note, a registration
\* (the inner tx_in of Register) paying either recipient, and an exchange
\* record.  AppendTx is given verified transactions only.
Txs == {MakeTx(s, k, "registration", TRUE) : s \in SerialNumbers, k \in RecipientKeys}
       \cup {MakeTx(s, DhKeys.A, "exchange", TRUE) : s \in SerialNumbers}

(***************************************************************************)
(* The ledger (ledger.go).                                                 *)
(***************************************************************************)
\* NewLedger: three empty lists; WithdrawTxs is the nil slice.
NewLedger == [CmList |-> <<>>, SnList |-> <<>>, TxList |-> <<>>, WithdrawTxs |-> <<>>]

ErrDoubleSpend == "double-spend detected: serial number already in ledger"

\* A search that looks at the most recent entry only.
HasSerialNumberLastOnly(l, sn) ==
    Len(l.SnList) > 0 /\ l.SnList[Len(l.SnList)] = sn

\* HasSerialNumber: linear search of SnList.
HasSerialNumber(l, sn) == \E i \in 1..Len(l.SnList) : l.SnList[i] = sn

\* HasCommitment: linear search of CmList.
HasCommitment(l, cm) == \E i \in 1..Len(l.CmList) : l.CmList[i] = cm


\* An append that pushes without looking for the serial number.
AppendTxNoCheck(l, tx) ==
    [ledger |-> [l EXCEPT !.SnList = Append(@, tx.SnOld),
                          !.CmList = Append(@, tx.CmNew),
                          !.TxList = Append(@, tx)],
     err |-> Nil]

\* An append that pushes the commitment before it looks for the serial number.
AppendTxPartial(l, tx) ==
    IF \E i \in 1..Len(l.SnList) : l.SnList[i] = tx.SnOld
    THEN [ledger |-> [l EXCEPT !.CmList = Append(@, tx.CmNew)], err |-> ErrDoubleSpend]
    ELSE [ledger |-> [l EXCEPT !.SnList = Append(@, tx.SnOld),
                               !.CmList = Append(@, tx.CmNew),
                               !.TxList = Append(@, tx)],
          err |-> Nil]

\* AppendTx: the ledger after the call and the error returned.
AppendTx(l, tx) ==
    IF HasSerialNumber(l, tx.SnOld)
    THEN [ledger |-> l, err |-> ErrDoubleSpend]
    ELSE [ledger |-> [l EXCEPT !.SnList = Append(@, tx.SnOld),
                               !.CmList = Append(@, tx.CmNew),
                               !.TxList = Append(@, tx)],
          err |-> Nil]

\* GetTxs.
GetTxs(l) == l.TxList

\* HasValidExchange.
HasValidExchange(l) == Len(l.TxList) > 0

(***************************************************************************)
(* Persistence: SaveToFile writes the exported fields of the Ledger as one *)
(* JSON object, LoadLedgerFromFile decodes it into a fresh Ledger.         *)
(***************************************************************************)
\* A JSON value is a tagged tuple: <<"null">>, <<"[]", elements>> or
\* <<"{}", members...>> with the members in the order of the struct's fields.
JsonNull == <<"null">>

\* A slice: null when it is nil (WithdrawTxs of NewLedger), an array otherwise.
EncodeSlice(s, isNil) == IF isNil THEN JsonNull ELSE <<"[]", s>>

\* Decoding null leaves the slice nil, of length 0.
DecodeSlice(j) == IF j = JsonNull THEN <<>> ELSE j[2]

\* json.Encoder on a *Tx: every field of Tx is exported.
EncodeTx(tx) == <<"{}", tx.SnOld, tx.CmNew, tx.Kind, tx.ProofValid, tx.NewNote>>

DecodeTx(j) ==
    [SnOld |-> j[2], CmNew |-> j[3], Kind |-> j[4], ProofValid |-> j[5], NewNote |-> j[6]]

\* A decoder that reads the members of a Tx in another order.
DecodeLedgerSwapped(doc) ==
    [CmList |-> DecodeSlice(doc[2]),
     SnList |-> DecodeSlice(doc[3]),
     TxList |-> [i \in 1..Len(DecodeSlice(doc[4])) |->
                    [DecodeTx(DecodeSlice(doc[4])[i]) EXCEPT
                        !.SnOld = DecodeSlice(doc[4])[i][3],
                        !.CmNew = DecodeSlice(doc[4])[i][2]]],
     WithdrawTxs |-> DecodeSlice(doc[5])]

EncodeLedger(l) ==
    <<"{}",
      EncodeSlice(l.CmList, FALSE),
      EncodeSlice(l.SnList, FALSE),
      EncodeSlice([i \in 1..Len(l.TxList) |-> EncodeTx(l.TxList[i])], FALSE),
      EncodeSlice(l.WithdrawTxs, Len(l.WithdrawTxs) = 0)>>

DecodeLedger(doc) ==
    [CmList |-> DecodeSlice(doc[2]),
     SnList |-> DecodeSlice(doc[3]),
     TxList |-> [i \in 1..Len(DecodeSlice(doc[4])) |-> DecodeTx(DecodeSlice(doc[4])[i])],
     WithdrawTxs |-> DecodeSlice(doc[5])]

\* The file: absent, truncated by os.Create, or holding a JSON document.
NoFile == [state |-> "absent", doc |-> EncodeLedger(NewLedger)]
TruncatedFile == [state |-> "truncated", doc |-> EncodeLedger(NewLedger)]
WrittenFile(l) == [state |-> "written", doc |-> EncodeLedger(l)]

\* LoadLedgerFromFile: the ledger and the error (os.Open fails on a missing
\* file, Decode fails with EOF on an empty one).
LoadLedgerFromFile(f) ==
    IF f.state = "written"
    THEN [ledger |-> DecodeLedger(f.doc), err |-> Nil]
    ELSE [ledger |-> NewLedger, err |-> "load failed"]

(***************************************************************************)
(* Groth16 (gnark).  A key pair comes from compiling one circuit over one  *)
(* curve's scalar field and running Setup.  Proof bytes carry the curve    *)
(* they are serialised for, the circuit and the public inputs they bind.   *)
(***************************************************************************)
\* The withdraw circuit compiled over BW6-761, as every Compile of the repository.
WithdrawKeys == [curve |-> "BW6_761", circuit |-> "withdraw"]
\* The CircuitTx keys, which the orchestrator hands to triggerWithdraw.
TxKeys == [curve |-> "BW6_761", circuit |-> "tx"]
\* The withdraw circuit compiled over BLS12-377 by some other caller.
Bls12WithdrawKeys == [curve |-> "BLS12_377", circuit |-> "withdraw"]
KeyPairs == {WithdrawKeys, TxKeys, Bls12WithdrawKeys}

NoWithdrawTx == [SnIn |-> <<"prf", 0, <<"rho", 0>>>>, CmOut |-> <<"cm">>,
                 PkT |-> AuctioneerPk, CipherAux |-> <<>>]
\* Bytes that are no proof of any curve.
NoProof == [curve |-> "none", circuit |-> "none", public |-> NoWithdrawTx]

\* CircuitWithdraw.Define: the three assertions of the withdraw circuit.
CircuitWithdrawDefine(w) ==
    /\ w.SnIn = PRFGo(w.SkIn, w.NIn.Rho)
    /\ w.CmOut = Commitment(w.NOut.Coins, w.NOut.Energy, w.NOut.Pk, w.NOut.Rho, w.NOut.R)
    /\ w.CipherAux = EncWithdrawMimc(w.Bid, w.SkIn, w.NOut.Pk, w.PkT)

\* The public part of a CircuitWithdraw assignment.
PublicInputs(w) == [SnIn |-> w.SnIn, CmOut |-> w.CmOut, PkT |-> w.PkT,
                    CipherAux |-> w.CipherAux]

\* groth16.Prove(ccs, pk, witness) for a CircuitWithdraw assignment built over
\* the scalar field of `field`: fails unless the witness is over the curve of
\* the constraint system, has its shape, and satisfies it.
Groth16Prove(keys, field, w) ==
    IF keys.curve = field /\ keys.circuit = "withdraw" /\ CircuitWithdrawDefine(w)
    THEN [proof |-> [curve |-> keys.curve, circuit |-> keys.circuit,
                     public |-> PublicInputs(w)],
          err |-> Nil]
    ELSE [proof |-> NoProof, err |-> "Prove failed"]

\* proof.ReadFrom on a proof object of `curve`: the possible results.  Bytes
\* of another curve either fail to decode or decode to a proof of nothing.
ProofReadFrom(curve, bytes) ==
    IF bytes.curve = curve
    THEN {[proof |-> bytes, err |-> Nil]}
    ELSE {[proof |-> NoProof, err |-> "cannot unmarshal"],
          [proof |-> [curve |-> curve, circuit |-> "none", public |-> NoWithdrawTx],
           err |-> Nil]}

\* groth16.Verify(proof, vk, publicWitness): nil exactly when the proof, the
\* key and the witness are of one curve, the key is the one of the proof's
\* circuit and the proof binds these public inputs.
Groth16Verify(proof, vk, witness) ==
    IF proof.curve # witness.curve THEN "invalid witness"
    ELSE IF vk.curve # proof.curve THEN "verifying key of another curve"
    ELSE IF proof.circuit = vk.circuit /\ proof.public = witness.public THEN Nil
    ELSE "verification failed"

(***************************************************************************)
(* The withdraw driver (withdraw.go).                                      *)
(***************************************************************************)
BuildWithdrawWitness(nIn, skIn, nOut, pkT, cipherAux, bid) ==
    [SnIn |-> PRFGo(skIn, nIn.Rho), CmOut |-> nOut.Cm, PkT |-> pkT,
     CipherAux |-> cipherAux, SkIn |-> skIn, Bid |-> bid, NIn |-> nIn, NOut |-> nOut]

\* Withdraw: the WithdrawTx, the proof bytes and the error.  The witness is
\* always built over the BW6-761 scalar field.
Withdraw(nIn, skIn, nOut, pkT, cipherAux, bid, keys) ==
    LET witness == BuildWithdrawWitness(nIn, skIn, nOut, pkT, cipherAux, bid)
        proved == Groth16Prove(keys, "BW6_761", witness)
    IN IF proved.err # Nil
       THEN [tx |-> NoWithdrawTx, proof |-> NoProof, err |-> proved.err]
       ELSE [tx |-> [SnIn |-> witness.SnIn, CmOut |-> witness.CmOut,
                     PkT |-> witness.PkT, CipherAux |-> cipherAux],
             proof |-> proved.proof, err |-> Nil]

\* VerifyWithdraw: the public witness and the proof object are BW6-761.
VerifyWithdraw(tx, proofBytes, vk) ==
    IF proofBytes.curve # "BW6_761" THEN "cannot unmarshal"
    ELSE Groth16Verify(proofBytes, vk, [curve |-> "BW6_761", public |-> tx])

\* SubmitWithdrawTx: the proof object and the public witness are BLS12-377.
\* `decoded` is the result of proof.ReadFrom.
SubmitWithdrawTx(l, tx, proofBytes, vk, decoded) ==
    IF decoded.err # Nil
    THEN [ledger |-> l, err |-> "invalid withdraw proof: cannot unmarshal"]
    ELSE IF Groth16Verify(decoded.proof, vk, [curve |-> "BLS12_377", public |-> tx]) # Nil
    THEN [ledger |-> l, err |-> "invalid withdraw proof: verification failed"]
    ELSE [ledger |-> [l EXCEPT !.WithdrawTxs = Append(@, tx)], err |-> Nil]

(***************************************************************************)
(* Inputs of the withdraw calls.                                           *)
(***************************************************************************)
\* The note a participant registered with key sk, and the withdraw output.
InputNote(sk) ==
    [Coins |-> NoteOpening.Coins, Energy |-> NoteOpening.Energy, Pk |-> mimcHash(sk),
     Rho |-> NoteRho, R |-> NoteRand,
     Cm |-> Commitment(NoteOpening.Coins, NoteOpening.Energy, mimcHash(sk),
                       NoteRho, NoteRand)]

OutputNote(sk) ==
    [Coins |-> NoteOpening.Coins, Energy |-> NoteOpening.Energy, Pk |-> mimcHash(sk),
     Rho |-> <<"H", NoteRho>>, R |-> NoteRand,
     Cm |-> Commitment(NoteOpening.Coins, NoteOpening.Energy, mimcHash(sk),
                       <<"H", NoteRho>>, NoteRand)]

\* The driver on the consistent inputs of the participant with key sk.
HonestWithdraw(sk, keys) ==
    Withdraw(InputNote(sk), sk, OutputNote(sk), AuctioneerPk,
             EncWithdrawMimc(NoteOpening.Bid, sk, mimcHash(sk), AuctioneerPk),
             NoteOpening.Bid, keys)

\* The driver with a ciphertext that does not encrypt (bid, sk_in, pk_out).
InconsistentWithdraw(sk, keys) ==
    Withdraw(InputNote(sk), sk, OutputNote(sk), AuctioneerPk,
             EncWithdrawMimc(NoteOpening.Bid + 1, sk, mimcHash(sk), AuctioneerPk),
             NoteOpening.Bid, keys)

\* The withdraw records and proof bytes a caller can hand to the ledger: the
\* driver's, and those of a prover working over BLS12-377.
WithdrawRecords == {HonestWithdraw(sk, WithdrawKeys).tx : sk \in SecretKeys}

WithdrawProofs ==
    {HonestWithdraw(sk, WithdrawKeys).proof : sk \in SecretKeys}
    \cup {[curve |-> "BLS12_377", circuit |-> "withdraw", public |-> tx] :
            tx \in WithdrawRecords}
    \cup {NoProof}

(***************************************************************************)
(* The ledger calls, made one after the other by one caller.               *)
(***************************************************************************)
NoSn == <<"prf", 0, <<"rho", 0>>>>

Op(name, sn, err) ==
    [op |-> name, sn |-> sn, verifies |-> FALSE, honest |-> FALSE, ret |-> FALSE,
     err |-> err]

\* The participants that run a REST server, and each one's note key.
Participants == {"A", "B"}
ParticipantKey(p) == DhKeys[p]

\* Wallet.AddNote: the note, its key, Spent = false and its rEnc are pushed
\* onto the wallet's parallel vectors.
AddNote(w, note, sk, rEnc) ==
    [w EXCEPT !.Notes = Append(@, note),
              !.NoteKeys = Append(@, sk),
              !.Spent = Append(@, FALSE),
              !.rEnc = Append(@, rEnc)]

\* The wallet NewParticipant builds: the DH secret key and empty vectors.
EmptyWallet(sk) ==
    [Sk |-> sk, Notes |-> <<>>, NoteKeys |-> <<>>, Spent |-> <<>>, rEnc |-> <<>>]

\* The orchestrator before main starts.
IdleRun ==
    [variant |-> "none", phase |-> "idle", i |-> 0, bids |-> <<>>, wallet |-> <<>>,
     attempted |-> <<>>, status |-> <<>>, exchangeSucceeded |-> FALSE,
     shown |-> <<>>]

\* No driver function has been called.
IdleCall == [fn |-> "none", in |-> <<>>, out |-> <<>>]

\* ---- P2P nodes (p2p): values ----

\* InitiateDHExchange calls in one run.
MaxInit == 2

\* Attempts of one SendMessage.
maxRetries == 3

\* The two nodes of the network; each has the other as its only peer.
Nodes == {1, 2}
Peer(n) == 3 - n

\* A G1 point is the generator raised to a set of scalars; the zero value of
\* G1Affine is the point at infinity.
Generator == <<"G1", {}>>
NoPoint == <<"O", {}>>

\* A product that forgets the point it multiplies.
ScalarMultiplicationOfGenerator(point, scalar) == <<"G1", {scalar}>>

ScalarMultiplication(point, scalar) ==
    IF point = NoPoint THEN NoPoint ELSE <<point[1], point[2] \cup {scalar}>>

\* No entry in DHKeys.
NoDHState ==
    [Status |-> "none", OurSecret |-> 0, OurPublic |-> NoPoint,
     TheirPublic |-> NoPoint, SharedSecret |-> NoPoint]

\* No InitiateDHExchange goroutine is in SendMessage.
NoSend == [chan |-> 0, attempt |-> 0, pub |-> NoPoint]

\* The nodes after NewNode: no DH state, no completion channel, dhMutex free;
\* limit is the number of InitiateDHExchange calls the callers will make.
NewNodes(reach, peers, limit) ==
    [dh |-> [n \in Nodes |-> NoDHState],
     done |-> [n \in Nodes |-> 0],
     mutex |-> [n \in Nodes |-> FALSE],
     sending |-> [n \in Nodes |-> NoSend],
     msgs |-> {},
     chans |-> <<>>,
     secrets |-> 0,
     calls |-> 0,
     limit |-> limit,
     reach |-> reach,
     peers |-> peers]

IdleNet == NewNodes([n \in Nodes |-> TRUE], [n \in Nodes |-> TRUE], 0)

\* The explored wallet before any call, with an empty snapshot.
IdleWallet ==
    [w |-> EmptyWallet(DhKeys.A), snapLen |-> 0, op |-> "NewParticipant", err |-> Nil,
     proved |-> FALSE]

\* No request in flight: every Mu free, every wallet empty.
IdleServers ==
    [mu |-> [p \in Participants |-> 0],
     wallet |-> [p \in Participants |-> EmptyWallet(ParticipantKey(p))],
     req |-> <<>>]

Init ==
    /\ ledger = NewLedger
    /\ file = NoFile
    /\ lastOp = Op("NewLedger", NoSn, Nil)
    /\ srv = IdleServers
    /\ run = IdleRun
    /\ wal = IdleWallet
    /\ call = IdleCall
    /\ net = IdleNet

\* ledger.AppendTx(tx)
AppendTxCall ==
    \E tx \in Txs :
        LET r == AppendTx(ledger, tx)
        IN /\ ledger' = r.ledger
           /\ lastOp' = Op("AppendTx", tx.SnOld, r.err)
           /\ UNCHANGED <<file, srv, run, wal, call, net>>

\* The proof was produced by the withdraw driver on consistent inputs and vk
\* is the verifying key of the driver's proving key.
ByDriver(tx, proofBytes, vk) ==
    \E sk \in SecretKeys, keys \in KeyPairs :
        LET h == HonestWithdraw(sk, keys)
        IN h.err = Nil /\ h.tx = tx /\ h.proof = proofBytes /\ vk = keys

\* The Groth16 relation itself: the bytes are a proof for the circuit of vk,
\* over the curve of vk, binding the public inputs of tx.
ProofVerifies(tx, proofBytes, vk) ==
    /\ proofBytes.curve = vk.curve
    /\ proofBytes.circuit = vk.circuit
    /\ vk.circuit = "withdraw"
    /\ proofBytes.public = tx

\* ledger.SubmitWithdrawTx(tx, proofBytes, vk)
SubmitWithdrawTxCall ==
    /\ Len(ledger.WithdrawTxs) < MaxWd
    /\ \E tx \in WithdrawRecords, proofBytes \in WithdrawProofs, vk \in KeyPairs :
         \E decoded \in ProofReadFrom("BLS12_377", proofBytes) :
            LET r == SubmitWithdrawTx(ledger, tx, proofBytes, vk, decoded)
            IN /\ ledger' = r.ledger
               /\ lastOp' = [Op("SubmitWithdrawTx", tx.SnIn, r.err) EXCEPT
                                !.verifies = ProofVerifies(tx, proofBytes, vk),
                                !.honest = ByDriver(tx, proofBytes, vk)]
               /\ UNCHANGED <<file, srv, run, wal, call, net>>

\* ledger.SaveToFile(path)
SaveToFileCall ==
    /\ file' = WrittenFile(ledger)
    /\ lastOp' = Op("SaveToFile", NoSn, Nil)
    /\ UNCHANGED <<ledger, srv, run, wal, call, net>>

\* LoadLedgerFromFile(path), as the callers use it: a fresh ledger on error.
LoadLedgerFromFileCall ==
    LET r == LoadLedgerFromFile(file)
    IN /\ ledger' = r.ledger
       /\ lastOp' = Op("LoadLedgerFromFile", NoSn, r.err)
       /\ UNCHANGED <<file, srv, run, wal, call, net>>

\* ledger.HasValidExchange()
HasValidExchangeCall ==
    /\ lastOp' = [Op("HasValidExchange", NoSn, Nil) EXCEPT !.ret = HasValidExchange(ledger)]
    /\ UNCHANGED <<ledger, file, srv, run, wal, call, net>>

\* The calls on a ledger held in memory.
Next ==
    \/ AppendTxCall
    \/ SubmitWithdrawTxCall
    \/ HasValidExchangeCall

Spec == Init /\ [][Next]_vars

\* The calls on a ledger that is saved to and loaded from ledger.json.
NextFile ==
    \/ AppendTxCall
    \/ SaveToFileCall
    \/ LoadLedgerFromFileCall

SpecFile == Init /\ [][NextFile]_vars

(***************************************************************************)
(* handleTx (api.go): POST /tx on a participant's server.  Every request   *)
(* runs in its own goroutine; the servers of one deployment share the file *)
(* ledger.json and each participant has its own Mu.  File system calls are *)
(* taken to succeed.                                                       *)
(***************************************************************************)
Requests == 1..MaxReq

StatusOK == "200 OK"
StatusBadRequest == "400 Bad Request"
StatusConflict == "409 Conflict"

\* A request: the participant it is posted to and the tx in its body, which
\* pays that participant and whose proof VerifyTx accepts or not.
RequestInputs ==
    {[part |-> p, tx |-> MakeTx(sn, ParticipantKey(p), "registration", valid)] :
        p \in Participants, sn \in SerialNumbers, valid \in BOOLEAN}

NewRequest(in) ==
    [part |-> in.part, tx |-> in.tx, pc |-> "start", local |-> NewLedger, resp |-> Nil]

InitHandle ==
    /\ ledger = NewLedger
    /\ file = NoFile
    /\ lastOp = Op("NewLedger", NoSn, Nil)
    /\ run = IdleRun
    /\ wal = IdleWallet
    /\ call = IdleCall
    /\ net = IdleNet
    /\ \E ins \in [Requests -> RequestInputs] :
          srv = [IdleServers EXCEPT !.req = [r \in Requests |-> NewRequest(ins[r])]]


\* VerifyTx fails: 400 and return.
HandleRejectTx(r) ==
    /\ srv.req[r].pc = "start"
    /\ ~srv.req[r].tx.ProofValid
    /\ srv' = [srv EXCEPT !.req[r].pc = "done", !.req[r].resp = StatusBadRequest]
    /\ UNCHANGED <<ledger, file, lastOp, run, wal, call, net>>

\* VerifyTx passes, the note is recognised, p.Mu.Lock() is acquired.
HandleLock(r) ==
    /\ srv.req[r].pc = "start"
    /\ srv.req[r].tx.ProofValid
    /\ srv.mu[srv.req[r].part] = 0
    /\ srv' = [srv EXCEPT !.mu[srv.req[r].part] = r, !.req[r].pc = "locked"]
    /\ UNCHANGED <<ledger, file, lastOp, run, wal, call, net>>

\* LoadLedgerFromFile (NewLedger on error), then AppendTx on the loaded
\* ledger; on a double spend Mu is released and 409 is returned.
HandleLoadAppend(r) ==
    /\ srv.req[r].pc = "locked"
    /\ LET a == AppendTx(LoadLedgerFromFile(file).ledger, srv.req[r].tx)
       IN srv' = IF a.err # Nil
                 THEN [srv EXCEPT !.mu[srv.req[r].part] = 0,
                                  !.req[r].pc = "done",
                                  !.req[r].resp = StatusConflict]
                 ELSE [srv EXCEPT !.req[r].pc = "appended", !.req[r].local = a.ledger]
    /\ UNCHANGED <<ledger, file, lastOp, run, wal, call, net>>

\* SaveToFile, first half: os.Create truncates ledger.json.
HandleCreate(r) ==
    /\ srv.req[r].pc = "appended"
    /\ file' = TruncatedFile
    /\ srv' = [srv EXCEPT !.req[r].pc = "created"]
    /\ UNCHANGED <<ledger, lastOp, run, wal, call, net>>

\* SaveToFile, second half: the encoder writes the document.
HandleEncode(r) ==
    /\ srv.req[r].pc = "created"
    /\ file' = WrittenFile(srv.req[r].local)
    /\ srv' = [srv EXCEPT !.req[r].pc = "saved"]
    /\ UNCHANGED <<ledger, lastOp, run, wal, call, net>>

\* Wallet.AddNote, Wallet.Save, p.Mu.Unlock(), 200.
HandleWallet(r) ==
    /\ srv.req[r].pc = "saved"
    /\ srv' = [srv EXCEPT !.wallet[srv.req[r].part] = AddNote(@, srv.req[r].tx.NewNote, ParticipantKey(srv.req[r].part), Nil),
                          !.mu[srv.req[r].part] = 0,
                          !.req[r].pc = "done",
                          !.req[r].resp = StatusOK]
    /\ UNCHANGED <<ledger, file, lastOp, run, wal, call, net>>

NextHandle ==
    \E r \in Requests :
        \/ HandleRejectTx(r)
        \/ HandleLock(r)
        \/ HandleLoadAppend(r)
        \/ HandleCreate(r)
        \/ HandleEncode(r)
        \/ HandleWallet(r)

SpecHandle == InitHandle /\ [][NextHandle]_vars

(***************************************************************************)
(* The orchestrator (main): registration of every participant, the         *)
(* auction, the receiving phase.  Participant i registers the note of      *)
(* spending key i.  The repository holds two orchestrators that differ in  *)
(* appendTxToLedger: "memory" appends to the *Ledger that main later hands *)
(* to runReceivingPhase and saves it; "file" loads ledger.json, appends    *)
(* and saves, and leaves main's *Ledger as it was loaded at start.         *)
(***************************************************************************)
RunParticipants == 1..MaxSk

\* The keys of participant p in a run: the DH secret key of its wallet, the
\* fresh sk^in Register draws, the pk^in it passes to CreateTx as the key of
\* tx_in's new note, and the pk^out that ExchangePhase uses as the key of the
\* winner's new note.  Note keys are 1..MaxSk.
WalletSk(p) == 200 + p
RegisterSkIn(p) == 300 + p
RegisterPkOut(p) == 400 + p
RegisterPkIn(p) == 500 + p

\* The note participant p registers: NewNote(coins, energy, noteSecretKey).
RegisteredNote(sk) == [Cm |-> InputNote(sk).Cm, Pk |-> mimcHash(sk), Rho |-> NoteRho]
Bids == 1..MaxBid
Variants == {"memory", "file"}

InitRun ==
    /\ ledger = NewLedger
    /\ file = NoFile
    /\ lastOp = Op("NewLedger", NoSn, Nil)
    /\ srv = IdleServers
    /\ wal = IdleWallet
    /\ call = IdleCall
    /\ net = IdleNet
    /\ \E v \in Variants, bids \in [RunParticipants -> Bids] :
          run = [variant |-> v, phase |-> "registration", i |-> 1, bids |-> bids,
                 wallet |-> [p \in RunParticipants |-> EmptyWallet(WalletSk(p))],
                 attempted |-> [p \in RunParticipants |-> "none"],
                 status |-> [p \in RunParticipants |-> "none"],
                 exchangeSucceeded |-> FALSE,
                 shown |-> <<>>]

\* appendTxToLedger: main's ledger, the file and the error after the call.
appendTxToLedger(variant, l, f, tx) ==
    LET a == AppendTx(IF variant = "memory" THEN l ELSE LoadLedgerFromFile(f).ledger, tx)
    IN IF a.err # Nil
       THEN [ledger |-> l, file |-> f, err |-> "ledger append failed"]
       ELSE [ledger |-> IF variant = "memory" THEN a.ledger ELSE l,
             file |-> WrittenFile(a.ledger),
             err |-> Nil]

\* The loop index after participant i, and the phase once the loop is over.
AfterParticipant(r, next) ==
    [r EXCEPT !.i = @ + 1, !.phase = IF r.i = MaxSk THEN next ELSE @]

\* Registration of participant run.i: Register succeeds, the note goes to the
\* wallet, tx_in goes to the ledger.
RunRegister ==
    /\ run.phase = "registration"
    /\ LET sk == run.i
           tx == MakeTx(PRFGo(sk, NoteRho), RegisterPkIn(run.i), "registration", TRUE)
           a == appendTxToLedger(run.variant, ledger, file, tx)
           w == [run EXCEPT !.wallet[run.i] = AddNote(@, RegisteredNote(sk), sk, Nil)]
       IN /\ ledger' = a.ledger
          /\ file' = a.file
          /\ run' = IF a.err # Nil THEN [w EXCEPT !.phase = "exited"]
                    ELSE AfterParticipant(w, "auction")
    /\ UNCHANGED <<lastOp, srv, wal, call, net>>

\* Register or verifyRegistrationProof returns an error: os.Exit(1).
RunRegisterFails ==
    /\ run.phase = "registration"
    /\ run' = [run EXCEPT !.phase = "exited"]
    /\ UNCHANGED <<ledger, file, lastOp, srv, wal, call, net>>

\* ExchangePhase: the winner is the first participant with the highest
\* positive bid, 0 when there is none.
Winner(bids) ==
    IF \A p \in RunParticipants : bids[p] = 0 THEN 0
    ELSE CHOOSE p \in RunParticipants :
            /\ \A q \in RunParticipants : bids[q] <= bids[p]
            /\ \A q \in RunParticipants : q < p => bids[q] < bids[p]

\* The tx ExchangePhase creates for the winner: its old note is rebuilt from
\* the registration ciphertext, so its rho is not the registered note's.
ExchangeTx(winner) ==
    MakeTx(PRFGo(RegisterSkIn(winner), CipherRho), RegisterPkOut(winner), "exchange", TRUE)

\* The nil *Tx.
NilTx == MakeTx(NoSn, 0, "nil", FALSE)

\* An ExchangePhase that returns the winner's tx whether or not it was proved.
ExchangePhaseTxUnproved(winner, created) ==
    IF winner = 0 THEN NilTx
    ELSE [ExchangeTx(winner) EXCEPT !.ProofValid = created]

\* The tx ExchangePhase returns: nil when there is no winner or when CreateTx
\* failed (witness, Prove or marshalling), whose error is dropped.
ExchangePhaseTx(winner, created) ==
    IF winner = 0 \/ ~created THEN NilTx ELSE ExchangeTx(winner)

\* The auction: ExchangePhase fails (os.Exit(1)), or returns no tx, or returns
\* the winner's tx, which is appended to the ledger.
RunAuction ==
    /\ run.phase = "auction"
    /\ \E proved \in BOOLEAN, created \in BOOLEAN :
          LET tx == ExchangePhaseTx(Winner(run.bids), created)
              a == appendTxToLedger(run.variant, ledger, file, tx)
          IN IF ~proved
             THEN /\ run' = [run EXCEPT !.phase = "exited"]
                  /\ UNCHANGED <<ledger, file>>
             ELSE IF tx = NilTx
             THEN /\ run' = [run EXCEPT !.phase = "receiving"]
                  /\ UNCHANGED <<ledger, file>>
             ELSE /\ ledger' = a.ledger
                  /\ file' = a.file
                  /\ run' = [run EXCEPT !.phase = IF a.err # Nil THEN "exited"
                                                  ELSE "receiving"]
    /\ UNCHANGED <<lastOp, srv, wal, call, net>>

\* runReceivingPhase, first line: the branch is chosen by HasValidExchange.
RunReceiving ==
    /\ run.phase = "receiving"
    /\ run' = [run EXCEPT !.exchangeSucceeded = HasValidExchange(ledger),
                          !.i = 1,
                          !.phase = IF HasValidExchange(ledger) THEN "claim"
                                    ELSE "withdraw"]
    /\ UNCHANGED <<ledger, file, lastOp, srv, wal, call, net>>

\* Wallet.ClaimExchangeOutput: the last tx of the ledger that has a NewNote
\* (every tx CreateTx builds has one) is added to the wallet, under the key
\* of a wallet note with that commitment or else under the wallet's own key.
ClaimExchangeOutput(w, l) ==
    IF Len(GetTxs(l)) = 0
    THEN [wallet |-> w, err |-> "no transactions found in ledger"]
    ELSE LET tx == GetTxs(l)[Len(GetTxs(l))]
             own == {k \in 1..Len(w.Notes) :
                        k <= Len(w.NoteKeys) /\ w.Notes[k].Cm = tx.NewNote.Cm}
             key == IF own # {} THEN w.NoteKeys[CHOOSE k \in own : \A j \in own : k <= j]
                    ELSE w.Sk
         IN [wallet |-> AddNote(w, tx.NewNote, key, "proof"), err |-> Nil]

\* The claim loop, participant run.i.
RunClaim ==
    /\ run.phase = "claim"
    /\ LET c == ClaimExchangeOutput(run.wallet[run.i], ledger)
       IN run' = AfterParticipant(
                    [run EXCEPT !.wallet[run.i] = c.wallet,
                                !.attempted[run.i] = "claim",
                                !.status[run.i] = IF c.err = Nil THEN "CLAIMED"
                                                  ELSE "CLAIM_FAILED"],
                    "complete")
    /\ UNCHANGED <<ledger, file, lastOp, srv, wal, call, net>>

\* Placeholder ciphertext of GetWithdrawCipherAux.
ZeroCipherAux == << <<"zero">>, <<"zero">>, <<"zero">> >>

\* A triggerWithdraw without its checks: the driver is called on the zero note.
triggerWithdrawUnchecked(w, l, keys) ==
    LET wd == Withdraw(InputNote(0), 0, OutputNote(0), AuctioneerPk, ZeroCipherAux,
                       NoteOpening.Bid, keys)
    IN {[ledger |-> l, err |-> wd.err, proved |-> TRUE]}

\* triggerWithdraw: the possible results, as the ledger after the call, the
\* error, and whether withdraw.Withdraw, which builds the proof, was called.
\* The keys main passes are those of the transaction circuit.
triggerWithdraw(w, l, keys) ==
    LET unspent == {k \in 1..Len(w.Spent) : ~w.Spent[k]}
        first == CHOOSE k \in unspent : \A j \in unspent : k <= j
        wd == Withdraw(w.Notes[first], w.NoteKeys[first], OutputNote(w.NoteKeys[first]),
                       AuctioneerPk, ZeroCipherAux, NoteOpening.Bid, keys)
    IN IF unspent = {}
       THEN {[ledger |-> l, err |-> "no unspent notes available for withdrawal",
              proved |-> FALSE]}
       ELSE IF first > Len(w.rEnc)
       THEN {[ledger |-> l, err |-> "panic: index out of range", proved |-> FALSE]}
       ELSE IF w.rEnc[first] = Nil
       THEN {[ledger |-> l, err |-> "withdraw input validation failed", proved |-> FALSE]}
       ELSE IF wd.err # Nil
       THEN {[ledger |-> l, err |-> wd.err, proved |-> TRUE]}
       ELSE {[ledger |-> SubmitWithdrawTx(l, wd.tx, wd.proof, keys, d).ledger,
              err |-> SubmitWithdrawTx(l, wd.tx, wd.proof, keys, d).err,
              proved |-> TRUE] :
                d \in ProofReadFrom("BLS12_377", wd.proof)}

\* The withdraw loop, participant run.i.
RunWithdraw ==
    /\ run.phase = "withdraw"
    /\ \E t \in triggerWithdraw(run.wallet[run.i], ledger, TxKeys) :
          /\ ledger' = t.ledger
          /\ run' = AfterParticipant(
                       [run EXCEPT !.attempted[run.i] = "withdraw",
                                   !.status[run.i] = IF t.err = Nil THEN "WITHDRAWN"
                                                     ELSE "WITHDRAW_FAILED"],
                       "complete")
    /\ UNCHANGED <<file, lastOp, srv, wal, call, net>>

\* A reconcile that derives every serial number from the wallet's own key.
CheckNoteStatusWalletKey(w, l) ==
    [w EXCEPT !.Spent = [i \in 1..Len(w.Spent) |->
                            w.Spent[i] \/ HasSerialNumber(l, PRFGo(w.Sk, w.Notes[i].Rho))]]

\* CheckNoteStatusAgainstLedger: Spent[i] is set when H(NoteKeys[i], rho_i) is
\* in SnList, and is left as it is otherwise.
CheckNoteStatusAgainstLedger(w, l) ==
    [w EXCEPT !.Spent = [i \in 1..Len(w.Spent) |->
                            w.Spent[i]
                            \/ HasSerialNumber(l, PRFGo(w.NoteKeys[i], w.Notes[i].Rho))]]

\* Wallet.Save: the exported fields as one JSON object; rEnc is unexported.
EncodeWallet(w) ==
    <<"{}", w.Sk, EncodeSlice(w.Notes, FALSE), EncodeSlice(w.NoteKeys, FALSE),
      EncodeSlice(w.Spent, FALSE)>>

\* LoadWallet: the decoded fields; rEnc stays the nil slice.
DecodeWallet(doc) ==
    [Sk |-> doc[2], Notes |-> DecodeSlice(doc[3]), NoteKeys |-> DecodeSlice(doc[4]),
     Spent |-> DecodeSlice(doc[5]), rEnc |-> <<>>]

\* The closing loop over the wallets (part_000): each wallet is loaded from its
\* file and reconciled against main's ledger value, then shown.
RunReconcile ==
    /\ run.phase = "complete"
    /\ run.variant = "file"
    /\ Len(run.shown) < MaxSk
    /\ LET p == Len(run.shown) + 1
           w == DecodeWallet(EncodeWallet(run.wallet[p]))
       IN run' = [run EXCEPT !.shown = Append(@, CheckNoteStatusAgainstLedger(w, ledger))]
    /\ UNCHANGED <<ledger, file, lastOp, srv, wal, call, net>>

NextRun ==
    \/ RunRegister
    \/ RunRegisterFails
    \/ RunAuction
    \/ RunReceiving
    \/ RunClaim
    \/ RunWithdraw
    \/ RunReconcile

SpecRun == InitRun /\ [][NextRun]_vars

(***************************************************************************)
(* The operations of one wallet (api.go), that of participant A, next to a *)
(* ledger that other parties append to.  The wallet reconciles against the *)
(* ledger as it was when it last obtained it: a prefix of the ledger.      *)
(***************************************************************************)
\* The first n entries of the ledger.
Snapshot(l, n) ==
    [l EXCEPT !.CmList = SubSeq(@, 1, n), !.SnList = SubSeq(@, 1, n),
              !.TxList = SubSeq(@, 1, n)]

\* The serial number the wallet derives for its i-th note.
NoteSn(w, i) == PRFGo(w.NoteKeys[i], w.Notes[i].Rho)

WalletOp(w, name, err) ==
    [w |-> w, snapLen |-> 0, op |-> name, err |-> err, proved |-> FALSE]

\* The transactions this wallet's ledger sees: the registrations of the other
\* participant and the exchange records, which pay this wallet's key.
WalletTxs == {tx \in Txs : tx.Kind = "exchange" \/ tx.NewNote.Pk = mimcHash(DhKeys.B)}

\* Another party's transaction is accepted by the ledger.
WalletLedgerAppend ==
    /\ \E tx \in WalletTxs :
          LET a == AppendTx(ledger, tx)
          IN /\ a.err = Nil
             /\ ledger' = a.ledger
    /\ wal' = WalletOp(wal.w, "AppendTx", Nil)
    /\ UNCHANGED <<file, lastOp, srv, run, call, net>>

\* Registration: the participant's own note goes into the wallet with its key.
WalletAddNote ==
    /\ Len(wal.w.Notes) < MaxNotes
    /\ \E sk \in SecretKeys :
          wal' = WalletOp(AddNote(wal.w, RegisteredNote(sk), sk, Nil), "AddNote", Nil)
    /\ UNCHANGED <<ledger, file, lastOp, srv, run, call, net>>

\* handleTx, one request: the tx is appended to the ledger and its new note
\* goes into the wallet under the participant's DH secret key.
WalletReceive ==
    /\ Len(wal.w.Notes) < MaxNotes
    /\ \E tx \in WalletTxs :
          LET a == AppendTx(ledger, tx)
          IN /\ a.err = Nil
             /\ ledger' = a.ledger
             /\ wal' = WalletOp(AddNote(wal.w, tx.NewNote, wal.w.Sk, Nil), "handleTx", Nil)
    /\ UNCHANGED <<file, lastOp, srv, run, call, net>>

\* wallet.CheckNoteStatusAgainstLedger(ledger) on the ledger the caller holds:
\* the ledger as it was when the caller loaded it, its first n entries.
WalletReconcile ==
    /\ \E n \in 0..Len(ledger.TxList) :
          wal' = [WalletOp(CheckNoteStatusAgainstLedger(wal.w, Snapshot(ledger, n)),
                           "CheckNoteStatusAgainstLedger", Nil) EXCEPT !.snapLen = n]
    /\ UNCHANGED <<ledger, file, lastOp, srv, run, call, net>>

\* wallet.ClaimExchangeOutput(ledger)
WalletClaim ==
    /\ Len(wal.w.Notes) < MaxNotes
    /\ LET c == ClaimExchangeOutput(wal.w, ledger)
       IN wal' = WalletOp(c.wallet, "ClaimExchangeOutput", c.err)
    /\ UNCHANGED <<ledger, file, lastOp, srv, run, call, net>>

\* Wallet.Save at the end of a session, LoadWallet in NewParticipant at the
\* start of the next.
WalletRestart ==
    /\ wal' = WalletOp(DecodeWallet(EncodeWallet(wal.w)), "LoadWallet", Nil)
    /\ UNCHANGED <<ledger, file, lastOp, srv, run, call, net>>

NextWallet ==
    \/ WalletLedgerAppend
    \/ WalletAddNote
    \/ WalletReceive
    \/ WalletReconcile
    \/ WalletClaim
    \/ WalletRestart

SpecWallet == Init /\ [][NextWallet]_vars

(***************************************************************************)
(* The withdraw calls of that wallet.                                      *)
(***************************************************************************)
\* triggerWithdraw(participant, ledger, pk, ccs, vk) with main's keys.
WalletTriggerWithdraw ==
    /\ \E t \in triggerWithdraw(wal.w, ledger, TxKeys) :
          /\ ledger' = t.ledger
          /\ wal' = [WalletOp(wal.w, "triggerWithdraw", t.err) EXCEPT !.proved = t.proved]
    /\ UNCHANGED <<file, lastOp, srv, run, call, net>>

\* The withdraw record of the wallet's i-th note.
NoteWithdrawTx(w, i) ==
    [SnIn |-> NoteSn(w, i), CmOut |-> OutputNote(w.NoteKeys[i]).Cm, PkT |-> AuctioneerPk,
     CipherAux |-> EncWithdrawMimc(NoteOpening.Bid, w.NoteKeys[i],
                                   mimcHash(w.NoteKeys[i]), AuctioneerPk)]

\* ledger.SubmitWithdrawTx for the wallet's first unspent note, with a proof
\* made over BLS12-377, the curve SubmitWithdrawTx verifies on.
WalletSubmitWithdraw ==
    /\ Len(ledger.WithdrawTxs) < MaxWd
    /\ \E i \in 1..Len(wal.w.Notes) :
          /\ ~wal.w.Spent[i]
          /\ \A j \in 1..(i - 1) : wal.w.Spent[j]
          /\ LET tx == NoteWithdrawTx(wal.w, i)
                 proofBytes == [curve |-> "BLS12_377", circuit |-> "withdraw", public |-> tx]
             IN \E decoded \in ProofReadFrom("BLS12_377", proofBytes) :
                   LET r == SubmitWithdrawTx(ledger, tx, proofBytes, Bls12WithdrawKeys, decoded)
                   IN /\ ledger' = r.ledger
                      /\ wal' = WalletOp(wal.w, "SubmitWithdrawTx", r.err)
    /\ UNCHANGED <<file, lastOp, srv, run, call, net>>

NextWithdraw ==
    \/ WalletLedgerAppend
    \/ WalletAddNote
    \/ WalletReconcile
    \/ WalletClaim
    \/ WalletTriggerWithdraw
    \/ WalletSubmitWithdraw

SpecWithdraw == Init /\ [][NextWithdraw]_vars

(***************************************************************************)
(* The driver functions, called one at a time on inputs of the caller's    *)
(* choice.  `call` keeps the last call: its name, its input, its result.   *)
(***************************************************************************)
\* CircuitTx.Define on the witness CreateTx builds: sn, rhoNew and cmNew are
\* computed from the inputs, so what can fail is pkOld = H(skOld).
CircuitTxDefine(oldNote, oldSk) == oldNote.Pk = mimcHash(oldSk)

\* groth16.Prove(ccs, pk, witness) on a CircuitTx witness.
ProveTx(oldNote, oldSk, keys) ==
    IF keys = TxKeys /\ CircuitTxDefine(oldNote, oldSk) THEN Nil
    ELSE "proof generation failed"

\* The Tx both versions of CreateTx return when the proof was made.
CreatedTx(oldNote, oldSk, pkNew) ==
    LET sn == PRFGo(oldSk, oldNote.Rho)
        cm == Commitment(NoteOpening.Coins, NoteOpening.Energy, pkNew, <<"H", sn>>, NoteRand)
    IN [SnOld |-> sn, CmNew |-> cm, Kind |-> "transfer", ProofValid |-> TRUE,
        NewNote |-> [Cm |-> cm, Pk |-> pkNew, Rho |-> <<"H", sn>>]]

\* CreateTx of api.go: no ownership check, the witness goes to the prover.
CreateTxOlder(oldNote, oldSk, newSk, keys) ==
    IF ProveTx(oldNote, oldSk, keys) # Nil
    THEN [tx |-> NilTx, err |-> ProveTx(oldNote, oldSk, keys), proved |-> TRUE]
    ELSE [tx |-> CreatedTx(oldNote, oldSk, mimcHash(newSk)), err |-> Nil, proved |-> TRUE]

\* CreateTx of part_007: step 1 compares H(oldSk) with the note's owner.
CreateTx(oldNote, oldSk, pkNew, keys) ==
    IF mimcHash(oldSk) # oldNote.Pk
    THEN [tx |-> NilTx, err |-> "secret key does not match note owner", proved |-> FALSE]
    ELSE IF ProveTx(oldNote, oldSk, keys) # Nil
    THEN [tx |-> NilTx, err |-> ProveTx(oldNote, oldSk, keys), proved |-> TRUE]
    ELSE [tx |-> CreatedTx(oldNote, oldSk, pkNew), err |-> Nil, proved |-> TRUE]

\* zerocash.CreateTx(note, sk, pkNew, ...), the version with the owner check.
CreateTxCall ==
    /\ call = IdleCall
    /\ \E owner \in SecretKeys, oldSk \in SecretKeys, newSk \in RecipientKeys,
          keys \in KeyPairs :
          call' = [fn |-> "CreateTx",
                   in |-> [note |-> RegisteredNote(owner), oldSk |-> oldSk,
                           newSk |-> newSk, keys |-> keys],
                   out |-> CreateTx(RegisteredNote(owner), oldSk, mimcHash(newSk), keys)]
    /\ UNCHANGED <<ledger, file, lastOp, srv, run, wal, net>>

\* zerocash.CreateTx(note, sk, newSk, ...), the version of api.go.
CreateTxOlderCall ==
    /\ call = IdleCall
    /\ \E owner \in SecretKeys, oldSk \in SecretKeys, newSk \in RecipientKeys,
          keys \in KeyPairs :
          call' = [fn |-> "CreateTx (api.go)",
                   in |-> [note |-> RegisteredNote(owner), oldSk |-> oldSk,
                           newSk |-> newSk, keys |-> keys],
                   out |-> CreateTxOlder(RegisteredNote(owner), oldSk, newSk, keys)]
    /\ UNCHANGED <<ledger, file, lastOp, srv, run, wal, net>>

\* ---- Exchange driver (part_010) ----

\* Number of participants of a round (main.go).
N == 10

\* Largest number of payloads validateExchangeInputs accepts.
MaxRegPayloads == 10

\* A registration payload: the length of its ciphertext, its public key, and
\* whether the witness slot built from it satisfies the slot's constraints.
RegPayload(len, consistent) ==
    [CiphertextLen |-> len, PubKey |-> "G_r", Consistent |-> consistent]

\* n payloads, all with a 5-element ciphertext except the one at index bad.
RegPayloads(n, bad, consistent) ==
    [i \in 1..n |-> RegPayload(IF i = bad THEN 4 ELSE 5, consistent)]

validateExchangeInputs(regPayloads, auctioneerSk, pk) ==
    IF Len(regPayloads) = 0 THEN "no registration payloads provided"
    ELSE IF Len(regPayloads) > MaxRegPayloads THEN "too many registration payloads"
    ELSE IF \E i \in 1..Len(regPayloads) : regPayloads[i].CiphertextLen # 5
         THEN "invalid ciphertext for payload"
    ELSE IF auctioneerSk <= 0 THEN "auctioneer secret key must be positive"
    ELSE IF pk = Nil THEN "proving key is nil"
    ELSE Nil

\* The witness has ten slots; a slot beyond the payloads is filled with
\* default values.
BuildWitnessF10(regPayloads) ==
    [i \in 1..MaxRegPayloads |->
        IF i <= Len(regPayloads)
        THEN [from |-> "payload", Consistent |-> regPayloads[i].Consistent]
        ELSE [from |-> "default", Consistent |-> FALSE]]

\* Only the constraints of slot 0 are in the circuit.
CircuitTxF10Define(witness) == witness[1].Consistent

GenerateProofF10(witness) ==
    IF CircuitTxF10Define(witness)
    THEN [proof |-> "proofF10", err |-> Nil]
    ELSE [proof |-> Nil, err |-> "failed to generate proof"]

\* A nil *AuctionResult.
NoAuctionResult == <<>>

AuctionResult(inputs) == <<"AuctionResult", Len(inputs)>>

ExchangeFailed(err) ==
    [tx |-> NilTx, info |-> NoAuctionResult, proof |-> Nil, err |-> err]

\* ExchangePhaseWithNotes: validation, decryption, auction, witness, proof;
\* the returned txOut is always nil.
ExchangePhaseWithNotes(regPayloads, auctioneerSk, pk) ==
    IF validateExchangeInputs(regPayloads, auctioneerSk, pk) # Nil
    THEN ExchangeFailed("input validation failed")
    ELSE IF GenerateProofF10(BuildWitnessF10(regPayloads)).err # Nil
    THEN ExchangeFailed(GenerateProofF10(BuildWitnessF10(regPayloads)).err)
    ELSE [tx |-> NilTx, info |-> AuctionResult(regPayloads),
          proof |-> "proofF10", err |-> Nil]

\* ExchangePhase: the same steps, then a transaction for the winner whose
\* creation error is dropped.
ExchangePhase(regPayloads, auctioneerSk, pk, created) ==
    IF ExchangePhaseWithNotes(regPayloads, auctioneerSk, pk).err # Nil
    THEN ExchangePhaseWithNotes(regPayloads, auctioneerSk, pk)
    ELSE [ExchangePhaseWithNotes(regPayloads, auctioneerSk, pk)
             EXCEPT !.tx = ExchangePhaseTx(1, created)]

ExchangePhaseWithNotesCall ==
    /\ call = IdleCall
    /\ \E n \in 0..(MaxRegPayloads + 1), consistent \in BOOLEAN,
          auctioneerSk \in 0..1, pk \in {Nil, "pkF10"} :
          \E bad \in {0, n} :
             call' = [fn |-> "ExchangePhaseWithNotes",
                      in |-> [regPayloads |-> RegPayloads(n, bad, consistent),
                              auctioneerSk |-> auctioneerSk, pk |-> pk],
                      out |-> ExchangePhaseWithNotes(
                                  RegPayloads(n, bad, consistent), auctioneerSk, pk)]
    /\ UNCHANGED <<ledger, file, lastOp, srv, run, wal, net>>

ExchangePhaseCall ==
    /\ call = IdleCall
    /\ \E n \in 0..(MaxRegPayloads + 1), consistent \in BOOLEAN,
          auctioneerSk \in 0..1, pk \in {Nil, "pkF10"}, created \in BOOLEAN :
          \E bad \in {0, n} :
             call' = [fn |-> "ExchangePhase",
                      in |-> [regPayloads |-> RegPayloads(n, bad, consistent),
                              auctioneerSk |-> auctioneerSk, pk |-> pk],
                      out |-> ExchangePhase(RegPayloads(n, bad, consistent),
                                            auctioneerSk, pk, created)]
    /\ UNCHANGED <<ledger, file, lastOp, srv, run, wal, net>>

\* ---- Off-circuit auction (part_010) ----

MaxInputs == 3

\* Market average and energy reserve threshold of the classification.
AvgBidThreshold == 50
EnergyThreshold == 100

AuctionCoins == 0..2
AuctionEnergy == {0, 1, EnergyThreshold}
AuctionBids == {1, AvgBidThreshold}

\* The decrypted values of one registration.
RegistrationValues == [Coins : AuctionCoins, Energy : AuctionEnergy, Bid : AuctionBids]

\* A DecryptedRegistration holds pointers to big.Int cells; the cells of the
\* i-th registration are at addresses 3i-2 (Coins), 3i-1 (Energy), 3i (Bid).
DecryptedRegistration(i) == [Coins |-> 3 * i - 2, Energy |-> 3 * i - 1, Bid |-> 3 * i]

DecryptAllRegistrations(values) == [i \in 1..Len(values) |-> DecryptedRegistration(i)]

HeapOf(values) ==
    [a \in 1..(3 * Len(values)) |->
        LET i == (a + 2) \div 3
        IN  IF a = 3 * i - 2 THEN values[i].Coins
            ELSE IF a = 3 * i - 1 THEN values[i].Energy
            ELSE values[i].Bid]

\* The values a slice of registrations points to.
Deref(regs, heap) ==
    [i \in 1..Len(regs) |-> [Coins |-> heap[regs[i].Coins],
                             Energy |-> heap[regs[i].Energy],
                             Bid |-> heap[regs[i].Bid]]]

\* copy(outputs, inputs): the structs are copied, the pointers in them are not.
Copy(inputs) == inputs

IsBuyer(v) ==
    LET energyToCoinsRatio == IF v.Coins > 0 THEN v.Energy \div v.Coins ELSE 0
        bidPerUnit == IF v.Energy > 0 THEN v.Bid \div v.Energy ELSE 0
    IN  IF bidPerUnit >= AvgBidThreshold /\ v.Energy < EnergyThreshold THEN TRUE
        ELSE IF bidPerUnit < AvgBidThreshold /\ v.Energy >= EnergyThreshold THEN FALSE
        ELSE energyToCoinsRatio < 1

Buyers(values) == {i \in 1..Len(values) : IsBuyer(values[i])}
Sellers(values) == {i \in 1..Len(values) : ~IsBuyer(values[i])}

\* The orders sort.Slice may leave a set of indices in, for a comparison by
\* key: every arrangement in which no later key is less than an earlier one.
SortSlice(S, key) ==
    {o \in [1..Cardinality(S) -> S] :
        /\ \A i, j \in 1..Cardinality(S) : i # j => o[i] # o[j]
        /\ \A i, j \in 1..Cardinality(S) : i < j => ~(key[o[j]] < key[o[i]])}

\* Buyers by bid, descending; sellers by bid, ascending.
SortedBuyers(values) ==
    SortSlice(Buyers(values), [i \in 1..Len(values) |-> 0 - values[i].Bid])
SortedSellers(values) ==
    SortSlice(Sellers(values), [i \in 1..Len(values) |-> values[i].Bid])

Min(a, b) == IF a <= b THEN a ELSE b

SellerKeepsCoins(heap, reg, tradeQuantity, tradeValue) ==
    [heap EXCEPT ![reg.Energy] = @ - tradeQuantity]

\* Update buyer: gains energy, loses coins.
UpdateBuyer(heap, reg, tradeQuantity, tradeValue) ==
    [heap EXCEPT ![reg.Energy] = @ + tradeQuantity, ![reg.Coins] = @ - tradeValue]

\* Update seller: loses energy, gains coins.
UpdateSeller(heap, reg, tradeQuantity, tradeValue) ==
    [heap EXCEPT ![reg.Energy] = @ - tradeQuantity, ![reg.Coins] = @ + tradeValue]

\* The matching loop from pair k on.
RECURSIVE Match(_, _, _, _, _, _)
Match(k, buyers, sellers, inputs, outputs, heap) ==
    IF k > Len(buyers) \/ k > Len(sellers) THEN heap
    ELSE LET buyer == buyers[k]
             seller == sellers[k]
             buyerBid == heap[inputs[buyer].Bid]
             sellerBid == heap[inputs[seller].Bid]
             tradePrice == (buyerBid + sellerBid) \div 2
             tradeQuantity == Min(heap[inputs[buyer].Energy], heap[inputs[seller].Energy])
             tradeValue == tradePrice * tradeQuantity
         IN  IF buyerBid >= sellerBid
             THEN Match(k + 1, buyers, sellers, inputs, outputs,
                        UpdateSeller(UpdateBuyer(heap, outputs[buyer],
                                                 tradeQuantity, tradeValue),
                                     outputs[seller], tradeQuantity, tradeValue))
             ELSE heap

\* RunAuctionLogic on the inputs and the memory they point to, for one of the
\* orders the two sorts may produce; yields the outputs and the memory after.
RunAuctionLogic(inputs, heap, buyers, sellers) ==
    IF Len(inputs) = 0 THEN [outputs |-> inputs, heap |-> heap]
    ELSE [outputs |-> Copy(inputs),
          heap |-> Match(1, buyers, sellers, inputs, Copy(inputs), heap)]

\* The placeholder version returns its argument.
RunAuctionLogicPlaceholder(inputs, heap) == [outputs |-> inputs, heap |-> heap]

AuctionCall(fn, values, result) ==
    [fn |-> fn,
     in |-> [inputs |-> values],
     out |-> [outputs |-> Deref(result.outputs, result.heap),
              inputs |-> Deref(DecryptAllRegistrations(values), result.heap)]]

RunAuctionLogicCall ==
    /\ call = IdleCall
    /\ \E n \in 0..MaxInputs :
          \E values \in [1..n -> RegistrationValues] :
             \E buyers \in SortedBuyers(values), sellers \in SortedSellers(values) :
                call' = AuctionCall("RunAuctionLogic", values,
                            RunAuctionLogic(DecryptAllRegistrations(values),
                                            HeapOf(values), buyers, sellers))
    /\ UNCHANGED <<ledger, file, lastOp, srv, run, wal, net>>

RunAuctionLogicPlaceholderCall ==
    /\ call = IdleCall
    /\ \E n \in 0..MaxInputs :
          \E values \in [1..n -> RegistrationValues] :
             call' = AuctionCall("RunAuctionLogic (placeholder)", values,
                         RunAuctionLogicPlaceholder(DecryptAllRegistrations(values),
                                                    HeapOf(values)))
    /\ UNCHANGED <<ledger, file, lastOp, srv, run, wal, net>>

\* The caller has taken the result; the next call can start.
ReturnCall ==
    /\ call # IdleCall
    /\ call' = IdleCall
    /\ UNCHANGED <<ledger, file, lastOp, srv, run, wal, net>>

NextCall ==
    \/ ReturnCall
    \/ CreateTxCall
    \/ CreateTxOlderCall
    \/ ExchangePhaseWithNotesCall
    \/ ExchangePhaseCall
    \/ RunAuctionLogicCall
    \/ RunAuctionLogicPlaceholderCall

SpecCall == Init /\ [][NextCall]_vars

\* ---- P2P nodes (p2p): the DH exchange ----

\* The network: every node's server may or may not be reachable, every node
\* may or may not have its peer in its directory, and the callers make one
\* to MaxInit calls of InitiateDHExchange.
InitP2P ==
    /\ ledger = NewLedger
    /\ file = NoFile
    /\ lastOp = Op("NewLedger", NoSn, Nil)
    /\ srv = IdleServers
    /\ run = IdleRun
    /\ wal = IdleWallet
    /\ call = IdleCall
    /\ \E reach \in [Nodes -> BOOLEAN], peers \in [Nodes -> BOOLEAN],
          limit \in 1..MaxInit :
          net = NewNodes(reach, peers, limit)

\* A value is sent on the completion channel registered for the peer, the
\* channel is closed and its entry deleted.
Complete(nt, n, value) ==
    IF nt.done[n] = 0 THEN nt
    ELSE [nt EXCEPT !.chans[nt.done[n]].vals = Append(@, value),
                    !.done[n] = 0]

\* InitiateDHExchange up to the call of SendMessage: the goroutine takes
\* dhMutex, draws secret_a, stores the "initiated" state and the channel.
InitiateDHExchange ==
    /\ \E n \in Nodes :
          /\ net.calls < net.limit
          /\ ~net.mutex[n]
          /\ LET secret_a == net.secrets + 1
                 public_A == ScalarMultiplication(Generator, secret_a)
                 doneCh == Len(net.chans) + 1
             IN net' = [net EXCEPT
                          !.calls = @ + 1,
                          !.secrets = secret_a,
                          !.mutex[n] = TRUE,
                          !.dh[n] = [Status |-> "initiated", OurSecret |-> secret_a,
                                     OurPublic |-> public_A, TheirPublic |-> NoPoint,
                                     SharedSecret |-> NoPoint],
                          !.chans = Append(@, [owner |-> n, vals |-> <<>>]),
                          !.done[n] = doneCh,
                          !.sending[n] = [chan |-> doneCh, attempt |-> 0,
                                          pub |-> public_A]]
    /\ UNCHANGED <<ledger, file, lastOp, srv, run, wal, call>>

\* handleDHInitiate at node n for the public key pub: a fresh secret_b, the
\* "completed" state, and the dh_response handed to a SendMessage goroutine,
\* which fails at once when the sender is not in the directory.
handleDHInitiate(nt, n, pub) ==
    LET secret_b == nt.secrets + 1
        public_B == ScalarMultiplication(Generator, secret_b)
    IN [nt EXCEPT
          !.secrets = secret_b,
          !.dh[n] = [Status |-> "completed", OurSecret |-> secret_b,
                     OurPublic |-> public_B, TheirPublic |-> pub,
                     SharedSecret |-> ScalarMultiplication(pub, secret_b)],
          !.msgs = IF nt.peers[n]
                   THEN @ \cup {[type |-> "dh_response", to |-> Peer(n),
                                 pub |-> public_B, at |-> "wire", attempt |-> 0]}
                   ELSE @]

\* handleDHResponse at node n: ignored unless the state is "initiated";
\* otherwise the shared secret is computed from the stored secret and nil is
\* sent on the completion channel.
handleDHResponse(nt, n, pub) ==
    IF nt.dh[n].Status # "initiated" THEN nt
    ELSE Complete([nt EXCEPT
                     !.dh[n].TheirPublic = pub,
                     !.dh[n].SharedSecret = ScalarMultiplication(pub, nt.dh[n].OurSecret),
                     !.dh[n].Status = "completed"],
                  n, Nil)

\* The end of the InitiateDHExchange goroutine of node n.
EndSend(nt, n) == [nt EXCEPT !.sending[n] = NoSend, !.mutex[n] = FALSE]

\* SendMessage of dh_initiate, an attempt that is answered with 200: the
\* peer's handler has run under the peer's dhMutex.
SendDelivered ==
    /\ \E n \in Nodes :
          /\ net.sending[n].chan # 0
          /\ net.peers[n]
          /\ net.reach[Peer(n)]
          /\ ~net.mutex[Peer(n)]
          /\ net' = EndSend(handleDHInitiate(net, Peer(n), net.sending[n].pub), n)
    /\ UNCHANGED <<ledger, file, lastOp, srv, run, wal, call>>

\* SendMessage of dh_initiate, an attempt that fails: the peer's server is
\* not reachable, or the request waits for the peer's dhMutex until the
\* client times out, and the waiting handler runs later (the requests of
\* several attempts that wait at one handler are kept as one).  After
\* maxRetries attempts the error is sent on the channel.
SendAttemptFails ==
    /\ \E n \in Nodes :
          /\ net.sending[n].chan # 0
          /\ net.peers[n]
          /\ ~net.reach[Peer(n)] \/ net.mutex[Peer(n)]
          /\ LET attempt == net.sending[n].attempt + 1
                 waiting == IF net.reach[Peer(n)]
                            THEN {[type |-> "dh_initiate", to |-> Peer(n),
                                   pub |-> net.sending[n].pub, at |-> "handler",
                                   attempt |-> 0]}
                            ELSE {}
                 nt == [net EXCEPT !.msgs = @ \cup waiting,
                                   !.sending[n].attempt = attempt]
             IN net' = IF attempt = maxRetries
                       THEN EndSend(Complete(nt, n, "failed to send dh_initiate message"), n)
                       ELSE nt
    /\ UNCHANGED <<ledger, file, lastOp, srv, run, wal, call>>

\* SendMessage of dh_initiate when the target is not in n.Peers.
SendPeerNotFound ==
    /\ \E n \in Nodes :
          /\ net.sending[n].chan # 0
          /\ ~net.peers[n]
          /\ net' = EndSend(Complete(net, n, "failed to send dh_initiate message"), n)
    /\ UNCHANGED <<ledger, file, lastOp, srv, run, wal, call>>

\* messageHandler of a request that reached the server: on the wire it needs
\* a reachable server; the handler then needs dhMutex.
Handled(m) ==
    /\ ~net.mutex[m.to]
    /\ m.at = "wire" => net.reach[m.to]

\* A dh_initiate whose client has timed out is handled.
HandleDHInitiate ==
    /\ \E m \in net.msgs :
          /\ m.type = "dh_initiate"
          /\ Handled(m)
          /\ net' = handleDHInitiate([net EXCEPT !.msgs = @ \ {m}], m.to, m.pub)
    /\ UNCHANGED <<ledger, file, lastOp, srv, run, wal, call>>

\* A dh_response is handled.
HandleDHResponse ==
    /\ \E m \in net.msgs :
          /\ m.type = "dh_response"
          /\ Handled(m)
          /\ net' = handleDHResponse([net EXCEPT !.msgs = @ \ {m}], m.to, m.pub)
    /\ UNCHANGED <<ledger, file, lastOp, srv, run, wal, call>>

\* SendMessage of dh_response, an attempt that fails: as for dh_initiate, the
\* request is lost or waits at the handler; the goroutine's error is dropped.
ResponseAttemptFails ==
    /\ \E m \in net.msgs :
          /\ m.type = "dh_response"
          /\ m.at = "wire"
          /\ ~net.reach[m.to] \/ net.mutex[m.to]
          /\ LET waiting == IF net.reach[m.to]
                            THEN {[m EXCEPT !.at = "handler", !.attempt = 0]}
                            ELSE {}
                 retry == IF m.attempt + 1 < maxRetries
                          THEN {[m EXCEPT !.attempt = @ + 1]}
                          ELSE {}
             IN net' = [net EXCEPT !.msgs = (@ \ {m}) \cup waiting \cup retry]
    /\ UNCHANGED <<ledger, file, lastOp, srv, run, wal, call>>

NextP2P ==
    \/ InitiateDHExchange
    \/ SendDelivered
    \/ SendAttemptFails
    \/ SendPeerNotFound
    \/ HandleDHInitiate
    \/ HandleDHResponse
    \/ ResponseAttemptFails

SpecP2P == InitP2P /\ [][NextP2P]_vars

\* Every goroutine that can take a step takes it: the sends, the timeouts
\* and the handlers are weakly fair; calling InitiateDHExchange is not.
SpecP2PFair ==
    /\ SpecP2P
    /\ WF_vars(SendDelivered)
    /\ WF_vars(SendAttemptFails)
    /\ WF_vars(SendPeerNotFound)
    /\ WF_vars(HandleDHInitiate)
    /\ WF_vars(HandleDHResponse)
    /\ WF_vars(ResponseAttemptFails)

(***************************************************************************)
(* Properties of the ledger calls.                                         *)
(***************************************************************************)
SnSet(l) == {l.SnList[i] : i \in 1..Len(l.SnList)}
WithdrawnSet(l) == {l.WithdrawTxs[i].SnIn : i \in 1..Len(l.WithdrawTxs)}
IsPrefix(s, t) == Len(s) <= Len(t) /\ \A i \in 1..Len(s) : s[i] = t[i]

\* C1: an AppendTx whose tx.SnOld is already in SnList returns the
\* double-spend error, whatever appends came before (so appending a tx a
\* second time fails).
C1_DoubleSpendRejected ==
    [][(lastOp'.op = "AppendTx" /\ lastOp'.sn \in SnSet(ledger))
          => lastOp'.err = ErrDoubleSpend]_vars

\* C1 witness: after an accepted append of the note, a second append carrying
\* its serial number has just been refused.
C1_Witness ==
    /\ lastOp.op = "AppendTx"
    /\ lastOp.err = ErrDoubleSpend
    /\ lastOp.sn \in SnSet(ledger)
    /\ Len(ledger.TxList) = 1

\* C2: after any successful and failed appends, SnList holds the SnOld of
\* every tx of TxList exactly once and holds no entry twice.
C2_SerialNumbersUnique ==
    /\ \A i \in 1..Len(ledger.TxList) :
          Cardinality({j \in 1..Len(ledger.SnList) :
                          ledger.SnList[j] = ledger.TxList[i].SnOld}) = 1
    /\ \A i, j \in 1..Len(ledger.SnList) :
          i # j => ledger.SnList[i] # ledger.SnList[j]

\* C2 witness: two notes are spent and a further append has just failed.
C2_Witness ==
    /\ Len(ledger.SnList) = 2
    /\ Len(ledger.TxList) = 2
    /\ lastOp.op = "AppendTx"
    /\ lastOp.err # Nil

\* C4: once a serial number has been accepted by the ledger (through AppendTx
\* or through SubmitWithdrawTx), every later AppendTx or SubmitWithdrawTx
\* carrying it is rejected.
C4_SpentIsTerminal ==
    [][(/\ lastOp'.op \in {"AppendTx", "SubmitWithdrawTx"}
        /\ lastOp'.sn \in SnSet(ledger) \cup WithdrawnSet(ledger))
          => lastOp'.err # Nil]_vars

\* C5: an AppendTx or SubmitWithdrawTx that returns an error leaves SnList,
\* CmList and TxList as they were.
C5_FailedAppendChangesNothing ==
    [][(lastOp'.op \in {"AppendTx", "SubmitWithdrawTx"} /\ lastOp'.err # Nil)
          => /\ ledger'.SnList = ledger.SnList
             /\ ledger'.CmList = ledger.CmList
             /\ ledger'.TxList = ledger.TxList]_vars

\* C5 witness: an append has just failed on a ledger that holds two txs.
C5_Witness ==
    /\ lastOp.op = "AppendTx"
    /\ lastOp.err = ErrDoubleSpend
    /\ Len(ledger.TxList) = 2
    /\ Len(ledger.CmList) = 2

\* The three lists have one length and entry i of SnList and CmList is the
\* SnOld and CmNew of entry i of TxList.
Aligned(l) ==
    /\ Len(l.SnList) = Len(l.TxList)
    /\ Len(l.CmList) = Len(l.TxList)
    /\ \A i \in 1..Len(l.TxList) :
          l.SnList[i] = l.TxList[i].SnOld /\ l.CmList[i] = l.TxList[i].CmNew

\* C6: the lists stay index-aligned, an AppendTx only extends them, and a
\* SaveToFile followed by LoadLedgerFromFile gives back the same lists.
C6_AppendOnlyAligned ==
    /\ []Aligned(ledger)
    /\ [][/\ lastOp'.op = "AppendTx"
             => /\ IsPrefix(ledger.SnList, ledger'.SnList)
                /\ IsPrefix(ledger.CmList, ledger'.CmList)
                /\ IsPrefix(ledger.TxList, ledger'.TxList)
          /\ (lastOp.op = "SaveToFile" /\ lastOp'.op = "LoadLedgerFromFile")
             => /\ ledger'.SnList = ledger.SnList
                /\ ledger'.CmList = ledger.CmList
                /\ ledger'.TxList = ledger.TxList]_vars

\* C6 witness: a ledger of two txs has just been saved and loaded again.
C6_Witness ==
    /\ lastOp.op = "LoadLedgerFromFile"
    /\ lastOp.err = Nil
    /\ Len(ledger.TxList) = 2
    /\ file = WrittenFile(ledger)

\* C7: SubmitWithdrawTx pushes the record onto WithdrawTxs if and only if the
\* proof verifies against the verifying key and the record's public inputs,
\* and returns an error leaving WithdrawTxs unchanged when it does not.
C7_PushIffProofVerifies ==
    [][lastOp'.op = "SubmitWithdrawTx"
          => /\ lastOp'.verifies
                <=> /\ Len(ledger'.WithdrawTxs) = Len(ledger.WithdrawTxs) + 1
                    /\ ledger'.WithdrawTxs[Len(ledger'.WithdrawTxs)].SnIn = lastOp'.sn
             /\ ~lastOp'.verifies
                => /\ lastOp'.err # Nil
                   /\ ledger'.WithdrawTxs = ledger.WithdrawTxs]_vars

\* C8: a withdraw produced by the driver on consistent inputs is accepted by
\* SubmitWithdrawTx under the matching verifying key.
C8_HonestWithdrawAccepted ==
    (lastOp.op = "SubmitWithdrawTx" /\ lastOp.honest)
        => (lastOp.err = Nil /\ lastOp.sn \in WithdrawnSet(ledger))

\* C9: HasValidExchange returns true exactly when an exchange record with a
\* valid proof is on the ledger.
C9_HasValidExchangeIffExchange ==
    lastOp.op = "HasValidExchange"
        => (lastOp.ret <=> \E i \in 1..Len(ledger.TxList) :
                              /\ ledger.TxList[i].Kind = "exchange"
                              /\ ledger.TxList[i].ProofValid)

\* The requests that carry serial number sn in a tx that VerifyTx accepts.
Carrying(sn) == {r \in Requests : srv.req[r].tx.SnOld = sn /\ srv.req[r].tx.ProofValid}

\* C3: when concurrent requests append transactions with one serial number,
\* exactly one is answered with success and every other one with the
\* double-spend conflict.
C3_OneOfConcurrentAppendsWins ==
    \A sn \in SerialNumbers :
        (Carrying(sn) # {} /\ \A r \in Carrying(sn) : srv.req[r].pc = "done")
            => /\ Cardinality({r \in Carrying(sn) : srv.req[r].resp = StatusOK}) = 1
               /\ \A r \in Carrying(sn) : srv.req[r].resp \in {StatusOK, StatusConflict}

\* An exchange record whose proof is valid is on the ledger.
ExchangeOnLedger(l) ==
    \E k \in 1..Len(l.TxList) : l.TxList[k].Kind = "exchange" /\ l.TxList[k].ProofValid

\* C10: when the receiving phase is over, every participant has run the claim
\* if the ledger holds a valid exchange record and the withdraw driver if it
\* does not; so with registrations only, all withdrew and none claimed.
C10_ClaimIffExchangeElseWithdraw ==
    run.phase = "complete"
        => \A p \in RunParticipants :
              run.attempted[p] = IF ExchangeOnLedger(ledger) THEN "claim" ELSE "withdraw"

(***************************************************************************)
(* Properties of the orchestrated run, the handlers and the wallets.       *)
(***************************************************************************)
\* The ledger that ledger.json holds.
PersistedLedger == LoadLedgerFromFile(file).ledger

C12_NoAcceptedAppendLost ==
    (\A r \in Requests : srv.req[r].pc = "done")
        => \A r \in Requests :
              (/\ srv.req[r].resp = StatusOK
               /\ \A q \in Requests \ {r} : srv.req[q].tx.SnOld # srv.req[r].tx.SnOld)
                 => \E k \in 1..Len(PersistedLedger.TxList) :
                       PersistedLedger.TxList[k] = srv.req[r].tx

\* C13: a reconcile sets the spent flag of every note whose serial number
\* H(NoteKeys[i], rho_i) is in the SnList of the ledger it was given, and every
\* flag it sets belongs to a note whose serial number is in the ledger's SnList,
\* also when the ledger it was given lags behind the ledger.
C13_ReconcileMarksSpentOnly ==
    [][wal'.op = "CheckNoteStatusAgainstLedger"
         => \A i \in 1..Len(wal.w.Notes) :
               /\ NoteSn(wal.w, i) \in SnSet(Snapshot(ledger, wal'.snapLen))
                     => wal'.w.Spent[i]
               /\ (wal'.w.Spent[i] /\ ~wal.w.Spent[i])
                     => NoteSn(wal.w, i) \in SnSet(ledger')]_vars

\* C13 witness: a reconcile against a lagging ledger has marked one note spent
\* and left unspent a note whose serial number is only in the later entries.
C13_Witness ==
    /\ wal.op = "CheckNoteStatusAgainstLedger"
    /\ wal.snapLen < Len(ledger.TxList)
    /\ \E i, j \in 1..Len(wal.w.Notes) :
          /\ wal.w.Spent[i]
          /\ ~wal.w.Spent[j]
          /\ NoteSn(wal.w, j) \in SnSet(ledger) \ SnSet(Snapshot(ledger, wal.snapLen))

\* Every note of the wallet is stored with the secret key its pk derives from.
KeysMatchNotes(w) ==
    /\ Len(w.NoteKeys) = Len(w.Notes)
    /\ \A i \in 1..Len(w.Notes) : w.Notes[i].Pk = mimcHash(w.NoteKeys[i])

\* C14: in every wallet of the run, after registration's AddNote, after
\* ClaimExchangeOutput and after the wallet is saved, the i-th stored key is
\* the key of the i-th note: Notes[i].Pk = H(NoteKeys[i]).
C14_WalletKeysMatchNotes ==
    \A p \in DOMAIN run.wallet : KeysMatchNotes(run.wallet[p])

\* The public keys of the secret keys the wallet holds.
SpendablePks(w) ==
    {mimcHash(w.Sk)} \cup {mimcHash(w.NoteKeys[i]) : i \in 1..Len(w.NoteKeys)}

\* The exchange records of the ledger whose output note pays one of those keys.
ClaimableTxs(w, l) ==
    {k \in 1..Len(l.TxList) :
        l.TxList[k].Kind = "exchange" /\ l.TxList[k].NewNote.Pk \in SpendablePks(w)}

\* C15: ClaimExchangeOutput adds to the wallet the output note of the most
\* recent exchange transaction whose output pk matches a key the wallet can
\* spend; when no transaction matches it returns an error and adds nothing.
C15_ClaimTakesLatestMatching ==
    [][wal'.op = "ClaimExchangeOutput"
         => LET m == ClaimableTxs(wal.w, ledger)
            IN IF m = {}
               THEN wal'.err # Nil /\ wal'.w = wal.w
               ELSE /\ wal'.err = Nil
                    /\ wal'.w.Notes
                         = Append(wal.w.Notes,
                                  ledger.TxList[CHOOSE k \in m : \A j \in m : j <= k].NewNote)]_vars

\* The exchange record is on the persisted ledger.
ExchangeCommitted ==
    \E k \in 1..Len(PersistedLedger.TxList) : PersistedLedger.TxList[k].Kind = "exchange"

C17_RegistrationsThenOneExchange ==
    run.phase = "complete"
        => LET t == PersistedLedger.TxList
           IN /\ Len(t) = MaxSk + 1
              /\ \A p \in RunParticipants :
                    t[p] = MakeTx(PRFGo(p, NoteRho), RegisterPkIn(p), "registration", TRUE)
              /\ t[MaxSk + 1].Kind = "exchange"

\* The notes the wallet shows as UNSPENT.
Unspent(w) == {i \in 1..Len(w.Notes) : ~w.Spent[i]}

\* C18: once the ledger has accepted the withdraw of one of the wallet's notes,
\* the wallet holds exactly one UNSPENT note, and that note is the output note
\* of the withdraw.
C18_WithdrawLeavesOneOutputNote ==
    \A k \in 1..Len(ledger.WithdrawTxs) :
       (\E i \in 1..Len(wal.w.Notes) : NoteSn(wal.w, i) = ledger.WithdrawTxs[k].SnIn)
          => \E j \in Unspent(wal.w) :
                /\ Unspent(wal.w) = {j}
                /\ wal.w.Notes[j].Cm = ledger.WithdrawTxs[k].CmOut

\* C19: a triggerWithdraw on a wallet without an unspent note returns an error
\* before withdraw.Withdraw is called, so before any proof is made, and leaves
\* the ledger as it was.
C19_NoUnspentNoteWithdrawFails ==
    [][(wal'.op = "triggerWithdraw" /\ Unspent(wal.w) = {})
         => (wal'.err # Nil /\ ~wal'.proved /\ ledger' = ledger)]_vars

\* C19 witness: a wallet all of whose notes are spent has tried to withdraw.
C19_Witness ==
    /\ wal.op = "triggerWithdraw"
    /\ Len(wal.w.Notes) > 0
    /\ Unspent(wal.w) = {}
    /\ wal.err = "no unspent notes available for withdrawal"

\* C20: the withdraw path fails before proving when the withdraw metadata has
\* not been stored in the wallet; it does not go on with zero-initialised
\* placeholder data.  No wallet stores that metadata (registrationData is never
\* assigned), so every triggerWithdraw has to return an error without calling
\* the driver.
C20_WithdrawFailsWithoutMetadata ==
    [][wal'.op = "triggerWithdraw" => (wal'.err # Nil /\ ~wal'.proved)]_vars

(***************************************************************************)
(* Properties of the driver functions.                                     *)
(***************************************************************************)
\* C21: a CreateTx whose secret key does not hash to the owner of the note it
\* spends returns an error without calling the prover and returns no Tx.
C21_WrongKeyFailsBeforeProving ==
    (/\ call.fn \in {"CreateTx", "CreateTx (api.go)"}
     /\ mimcHash(call.in.oldSk) # call.in.note.Pk)
        => (call.out.err # Nil /\ ~call.out.proved /\ call.out.tx = NilTx)

\* C22: an exchange driver called with a number of registration payloads
\* other than N returns an error and no exchange record.
C22_WrongPayloadCountFails ==
    (/\ call.fn \in {"ExchangePhase", "ExchangePhaseWithNotes"}
     /\ Len(call.in.regPayloads) # N)
        => (call.out.err # Nil /\ call.out.tx = NilTx /\ call.out.info = NoAuctionResult)

RECURSIVE SumCoins(_)
SumCoins(values) ==
    IF values = <<>> THEN 0 ELSE values[1].Coins + SumCoins(Tail(values))

RECURSIVE SumEnergy(_)
SumEnergy(values) ==
    IF values = <<>> THEN 0 ELSE values[1].Energy + SumEnergy(Tail(values))

IsAuctionCall == call.fn \in {"RunAuctionLogic", "RunAuctionLogic (placeholder)"}

\* C24: the outputs of RunAuctionLogic hold the same total of coins and the
\* same total of energy as its inputs.
C24_AuctionPreservesTotals ==
    IsAuctionCall =>
        /\ SumCoins(call.out.outputs) = SumCoins(call.in.inputs)
        /\ SumEnergy(call.out.outputs) = SumEnergy(call.in.inputs)

\* A matching that moved energy and coins between a buyer and a seller.
C24_Witness ==
    /\ call.fn = "RunAuctionLogic"
    /\ \E i, j \in 1..Len(call.in.inputs) :
          /\ call.out.outputs[i].Coins < call.in.inputs[i].Coins
          /\ call.out.outputs[j].Coins > call.in.inputs[j].Coins
          /\ call.out.outputs[i].Energy > call.in.inputs[i].Energy

\* C30: after RunAuctionLogic returns, its inputs have the coins and energy
\* they had before the call.
C30_AuctionLeavesInputsUnchanged ==
    IsAuctionCall => call.out.inputs = call.in.inputs

\* The participants whose claim or withdrawal returned an error.
FailedInPhase(r) ==
    {p \in RunParticipants : r.status[p] \in {"CLAIM_FAILED", "WITHDRAW_FAILED"}}

\* C23: once a driver call or a ledger append of a phase has returned an
\* error, no further driver call of that phase is made: the registration
\* loop is left, and no later participant's claim or withdrawal is attempted.
C23_PhaseHaltsOnError ==
    [][/\ run.phase = "exited" => run' = run
       /\ FailedInPhase(run) # {} => run'.attempted = run.attempted]_vars

\* C27: the per-note vectors of the wallet have one length, and the withdraw
\* view (the rEnc entry) of every unspent note index exists, also after the
\* wallet has been saved and loaded again.
C27_WalletVectorsSameLength ==
    /\ Len(wal.w.NoteKeys) = Len(wal.w.Notes)
    /\ Len(wal.w.Spent) = Len(wal.w.Notes)
    /\ Len(wal.w.rEnc) = Len(wal.w.Notes)
    /\ \A i \in 1..Len(wal.w.Spent) : ~wal.w.Spent[i] => i \in DOMAIN wal.w.rEnc

\* The number of notes of the wallet with commitment cm.
Copies(w, cm) == Cardinality({k \in 1..Len(w.Notes) : w.Notes[k].Cm = cm})

\* C28: a ClaimExchangeOutput that follows a ClaimExchangeOutput on the same
\* ledger adds no further copy of a note the wallet already holds.
C28_ClaimIsIdempotent ==
    [][(/\ wal.op = "ClaimExchangeOutput"
        /\ wal'.op = "ClaimExchangeOutput"
        /\ ledger' = ledger)
          => \A k \in 1..Len(wal.w.Notes) :
                Copies(wal'.w, wal.w.Notes[k].Cm) = Copies(wal.w, wal.w.Notes[k].Cm)]_vars

\* ---- Properties of the DH exchange ----

BothCompleted == \A n \in Nodes : net.dh[n].Status = "completed"

SecretsAgree == net.dh[1].SharedSecret = net.dh[2].SharedSecret

\* C29: two nodes that both hold a "completed" DH state for each other hold
\* the same shared secret.
C29_CompletedStatesAgree == BothCompleted => SecretsAgree

\* Both servers are reachable and each node has the other in its directory.
Connected == \A n \in Nodes : net.reach[n] /\ net.peers[n]

\* The values received so far on the c-th channel InitiateDHExchange returned.
Received(c) == IF c <= Len(net.chans) THEN net.chans[c].vals ELSE <<>>

C26_ChannelReceivesOneValue ==
    /\ [](\A c \in 1..MaxInit : Len(Received(c)) <= 1)
    /\ \A c \in 1..MaxInit : (c <= Len(net.chans)) ~> (Len(Received(c)) = 1)

====
